---- MODULE Spec2Model ----
(***************************************************************************)
(* Model of the notebook osclab_basic.ipynb: one Python kernel whose       *)
(* global namespace is written by four code cells (import, undamped,       *)
(* damped, driven).  A cell runs to its end or to the first exception it   *)
(* raises; the names it assigned up to that point stay in the kernel.      *)
(*                                                                         *)
(* Numbers are exact rationals <<n, d>> (d > 0, lowest terms): the         *)
(* notebook's float arithmetic without rounding.                           *)
(***************************************************************************)
EXTENDS Integers, Sequences, FiniteSets, TLC

\* ------------------------------------------------------------- bounds
\* Largest number of steps N a cell is run with.
MaxN == 2

\* ------------------------------------------------- rational arithmetic
RECURSIVE GCD(_, _)
GCD(m, n) == IF n = 0 THEN m ELSE GCD(n, m % n)

Abs(n) == IF n < 0 THEN 0 - n ELSE n

\* The rational n/d in lowest terms with a positive denominator (d # 0).
Rat(n, d) ==
    LET g == GCD(Abs(n), Abs(d))
        s == IF d < 0 THEN 0 - 1 ELSE 1
    IN  <<(s * n) \div g, (s * d) \div g>>

FromInt(n) == <<n, 1>>
Zero == <<0, 1>>
One == <<1, 1>>
Two == <<2, 1>>

RAdd(p, q) ==
    LET g == GCD(p[2], q[2])
    IN  Rat(p[1] * (q[2] \div g) + q[1] * (p[2] \div g), (p[2] \div g) * q[2])
RNeg(p) == <<0 - p[1], p[2]>>
RSub(p, q) == RAdd(p, RNeg(q))
RMul(p, q) ==
    LET g1 == GCD(Abs(p[1]), q[2])
        g2 == GCD(Abs(q[1]), p[2])
    IN  Rat((p[1] \div g1) * (q[1] \div g2), (p[2] \div g2) * (q[2] \div g1))
\* p / q for q # 0; the callers model Python's ZeroDivisionError before it.
RDiv(p, q) ==
    RMul(p, IF q[1] < 0 THEN <<0 - q[2], 0 - q[1]>> ELSE <<q[2], q[1]>>)
RLess(p, q) == RSub(p, q)[1] < 0
\* floor(p)
RFloor(p) == p[1] \div p[2]

\* ------------------------------------------------------------- numpy
\* np.pi: a constant of the float type, hence a rational.  The model
\* carries it at one significant digit; Sin reduces its argument by the
\* same constant, as np.sin does by the float's pi to within rounding.
PI == <<3, 1>>

\* np.sin.  The argument is reduced to u = (arg/PI) mod 2 and evaluated by
\* the rational interpolant 16s(1-s) / (5 - 4s(1-s)) of sin(PI*s) on [0,1],
\* which is exact wherever the sine is rational (s = 0, 1/6, 1/2, 5/6, 1)
\* and within 0.002 of it elsewhere.
SinHalf(s) ==
    LET w == RMul(s, RSub(One, s))
    IN  RDiv(RMul(FromInt(16), w), RSub(FromInt(5), RMul(FromInt(4), w)))

Sin(arg) ==
    LET r == RDiv(arg, PI)
        u == RSub(r, FromInt(2 * RFloor(RDiv(r, Two))))
    IN  IF RLess(One, u) THEN RNeg(SinHalf(RSub(u, One))) ELSE SinHalf(u)

\* np.zeros(num), num >= 0: an array indexed 0..num-1.
Zeros(num) == [j \in 0..(num - 1) |-> Zero]

\* A faulty variant of Linspace: the endpoint left out (step = (stop-start)/num).
LinspaceOpen(start, stop, num) ==
    [j \in 0..(num - 1) |->
        IF num > 0
        THEN RAdd(RMul(FromInt(j), RDiv(RSub(stop, start), FromInt(num))), start)
        ELSE start]

\* np.linspace(start, stop, num), num >= 0, endpoint included:
\* y[j] = j*step + start with step = (stop-start)/(num-1), and the last
\* element set to stop.
Linspace(start, stop, num) ==
    [j \in 0..(num - 1) |->
        IF num > 1 /\ j = num - 1 THEN stop
        ELSE IF num > 1
             THEN RAdd(RMul(FromInt(j),
                            RDiv(RSub(stop, start), FromInt(num - 1))), start)
             ELSE start]

\* ------------------------------------------------ the acceleration laws
\* def acc(x, om): return -om**2 * x
AccUndamped(px, pom) == RMul(RNeg(RMul(pom, pom)), px)

\* def acc(x, v, om, de): return -om**2 * x - 2 * de * v
AccDamped(px, pv, pom, pde) ==
    RSub(RMul(RNeg(RMul(pom, pom)), px), RMul(RMul(Two, pde), pv))

\* A faulty variant of AccDriven: the damping term left out.
AccDrivenNoFriction(pt, px, pv, pom, pde, pad, pomd) ==
    RAdd(RMul(RNeg(RMul(pom, pom)), px), RMul(pad, Sin(RMul(pomd, pt))))

\* def acc(t, x, v, om, de, a_d, om_d):
\*     return -om**2 * x - 2 * de * v + a_d * np.sin(om_d * t)
AccDriven(pt, px, pv, pom, pde, pad, pomd) ==
    RAdd(RSub(RMul(RNeg(RMul(pom, pom)), px), RMul(RMul(Two, pde), pv)),
         RMul(pad, Sin(RMul(pomd, pt))))

\* ------------------------------------------------------------ the kernel
VARIABLES
    imported, \* whether the import cell has run (np and plt are bound)
    accDef,   \* which def acc(...) the name acc is bound to
    N, om, x0, v0, ze, om_d, a0, tmax, dt, ec, eu,   \* the scalar globals
    t, x, v,  \* the arrays, indexed 0..N
    a,        \* the global a of the loops
    i,        \* the index the running for-loop handles next
    pc,       \* where the running cell is ("idle": no cell is running)
    err,      \* the exception that ended the last simulation cell run, or "none"
    plotted,  \* the series the running cell has handed to the plot
    lit,      \* the literals of the cell text that was last run
    call      \* the arguments of the last call of acc

scalars == <<N, om, x0, v0, ze, om_d, a0, tmax, dt, ec, eu>>
arrays == <<t, x, v>>
vars == <<imported, accDef, scalars, arrays, a, i, pc, err, plotted, lit, call>>

\* ------------------------------------------- the literals a cell is run with
\* The cells are edited before they are run ("can be adjusted").  Each cell
\* is explored with the combinations of the usual values of its step
\* count and of its frequency, damping, driving amplitude or schemes, and
\* with each other value (another start or frequency, a step count below
\* 1, a time range of 0, a driving frequency <= 0, no scheme enabled) next
\* to one fixed choice of the other literals.
NoLit ==
    [cell |-> "none", N |-> 0, om |-> Zero, x0 |-> Zero, v0 |-> Zero,
     ze |-> Zero, om_d |-> Zero, a0 |-> Zero, tmax |-> Zero, half |-> 0,
     ec |-> FALSE, eu |-> FALSE]

GoodNVals == 1..MaxN
BadNVals == {0 - 2, 0 - 1, 0}
OmVals == {One, Two}
ZeVals == {Zero, <<1, 2>>}
A0Vals == {Zero, One}
\* <<x0, v0>>: the usual start, and the unusual ones
Start == <<One, One>>
OtherStarts == {<<One, Zero>>, <<Zero, One>>, <<Zero, Zero>>}
\* <<ec, eu>>
Both == <<TRUE, TRUE>>
SchemeVals == {<<TRUE, FALSE>>, <<FALSE, TRUE>>, Both}
\* the literal 100 of "tmax = 100 * np.pi/om_d": the number of half
\* driving periods the run spans
HalfPeriodVals == {1}

ULit(n, o, s, m, sch) ==
    [NoLit EXCEPT !.cell = "undamped", !.N = n, !.om = o, !.x0 = s[1],
                  !.v0 = s[2], !.tmax = m, !.ec = sch[1], !.eu = sch[2]]

\* The first MaxN steps of the run om = 5, x0 = 0.5, v0 = 5, N = 100,
\* tmax = 5: the same dt = 1/20 with tmax cut to MaxN steps.
ExampleLit ==
    ULit(MaxN, FromInt(5), <<<<1, 2>>, FromInt(5)>>, Rat(MaxN, 20), Both)

UndampedLits ==
    {ULit(n, o, Start, One, sch) :
        n \in GoodNVals, o \in OmVals, sch \in SchemeVals}
    \cup {ULit(MaxN, One, s, One, Both) : s \in OtherStarts}
    \cup {ULit(n, One, Start, One, Both) : n \in BadNVals}
    \cup {ULit(1, One, Start, Zero, Both),
          ULit(1, One, Start, One, <<FALSE, FALSE>>),
          ExampleLit}

DLit(n, o, s, z, m) ==
    [NoLit EXCEPT !.cell = "damped", !.N = n, !.om = o, !.x0 = s[1],
                  !.v0 = s[2], !.ze = z, !.tmax = m]

DampedLits ==
    {DLit(n, One, Start, z, One) : n \in GoodNVals, z \in ZeVals}
    \cup {DLit(MaxN, Two, Start, <<1, 2>>, One),
          DLit(MaxN, One, <<Zero, One>>, <<1, 2>>, One),
          DLit(0, One, Start, <<1, 2>>, One)}

\* tmax = 100 * np.pi/om_d (with h for the literal 100); Zero stands in
\* where om_d = 0: the division raises and tmax is never assigned.  The
\* driven cell has no tmax literal: the tmax of its record is this value.
DrivenTmax(h, od) ==
    IF od = Zero THEN Zero ELSE RDiv(RMul(FromInt(h), PI), od)

RLit(n, o, p, z, od, d, h) ==
    [NoLit EXCEPT !.cell = "driven", !.N = n, !.om = o, !.x0 = p, !.ze = z,
                  !.om_d = od, !.a0 = d, !.half = h,
                  !.tmax = DrivenTmax(h, od)]

DrivenLits ==
    {RLit(n, One, One, z, One, d, h) :
        n \in GoodNVals, z \in ZeVals, d \in A0Vals, h \in HalfPeriodVals}
    \cup {RLit(MaxN, Two, One, <<1, 2>>, One, One, 1),
          RLit(MaxN, One, Zero, <<1, 2>>, One, One, 1)}
    \cup {RLit(0, One, One, <<1, 2>>, One, One, 1)}
    \cup {RLit(1, One, One, <<1, 2>>, od, One, 1) : od \in {<<0 - 1, 1>>, Zero}}

NoCall == [t |-> Zero, x |-> Zero, v |-> Zero, de |-> Zero]

Init ==
    /\ imported = FALSE
    /\ accDef = "none"
    /\ N = 0 /\ om = Zero /\ x0 = Zero /\ v0 = Zero /\ ze = Zero
    /\ om_d = Zero /\ a0 = Zero /\ tmax = Zero /\ dt = Zero
    /\ ec = FALSE /\ eu = FALSE
    /\ t = Zeros(0) /\ x = Zeros(0) /\ v = Zeros(0)
    /\ a = Zero /\ i = 0
    /\ pc = "idle" /\ err = "none"
    /\ plotted = <<>>
    /\ lit = NoLit
    /\ call = NoCall

\* import matplotlib.pyplot as plt; import numpy as np
Import ==
    /\ pc = "idle"
    /\ imported' = TRUE
    /\ UNCHANGED <<accDef, scalars, arrays, a, i, pc, err, plotted, lit, call>>

\* --------------------------------------------------------- cell setups
\* How far a cell's setup runs, and the exception that stops it:
\*   far = 0   raised by "tmax = 100 * np.pi/om_d" (driven cell only)
\*   far = 1   raised by "dt = tmax/N"
\*   far = 2   raised by "t = np.linspace(0, tmax, N+1)"
\*   far = 3   raised by "x[0] = x0"
\*   far = 4   nothing raised
ArraySetup(n) ==
    IF n = 0 THEN [far |-> 1, err |-> "ZeroDivisionError"]
    ELSE IF ~imported THEN [far |-> 2, err |-> "NameError"]
    ELSE IF n + 1 < 0 THEN [far |-> 2, err |-> "ValueError"]
    ELSE IF n + 1 = 0 THEN [far |-> 3, err |-> "IndexError"]
    ELSE [far |-> 4, err |-> "none"]

DrivenSetup(n, od) ==
    IF ~imported THEN [far |-> 0, err |-> "NameError"]
    ELSE IF od = Zero THEN [far |-> 0, err |-> "ZeroDivisionError"]
    ELSE ArraySetup(n)

\* dt = tmax/N; t = np.linspace(0, tmax, N+1); x = np.zeros(N+1);
\* v = np.zeros(N+1); x[0] = x0; v[0] = <vinit>
SetupArrays(far, n, m, xinit, vinit) ==
    /\ dt' = IF far >= 2 THEN RDiv(m, FromInt(n)) ELSE dt
    /\ IF far >= 3
       THEN /\ t' = Linspace(Zero, m, n + 1)
            /\ x' = IF far = 4 THEN [Zeros(n + 1) EXCEPT ![0] = xinit]
                    ELSE Zeros(n + 1)
            /\ v' = IF far = 4 THEN [Zeros(n + 1) EXCEPT ![0] = vinit]
                    ELSE Zeros(n + 1)
       ELSE UNCHANGED arrays

\* ---------------------------------------------------- the undamped cell
\* Lines 60-90: def acc, the parameters, dt, the arrays, sample 0.
RunUndamped(p) ==
    LET s == ArraySetup(p.N) IN
    /\ pc = "idle"
    /\ lit' = p
    /\ err' = s.err
    /\ plotted' = <<>>
    /\ accDef' = "undamped"
    /\ N' = p.N /\ om' = p.om /\ x0' = p.x0 /\ v0' = p.v0
    /\ ec' = p.ec /\ eu' = p.eu /\ tmax' = p.tmax
    /\ UNCHANGED imported
    /\ SetupArrays(s.far, p.N, p.tmax, p.x0, p.v0)
    /\ pc' = IF s.far < 4 THEN "idle"
             ELSE IF p.ec THEN "u_ec"
             ELSE IF p.eu THEN "u_eu"
             ELSE "u_show"
    /\ i' = IF s.far = 4 /\ (p.ec \/ p.eu) THEN 0 ELSE i
    /\ UNCHANGED <<ze, om_d, a0, a, call>>

\* A faulty variant of EulerCromerStep: the position is stepped with the old velocity.
EulerCromerStepOld ==
    /\ pc = "u_ec"
    /\ i < N
    /\ LET an == AccUndamped(x[i], om)
       IN  /\ a' = an
           /\ call' = [NoCall EXCEPT !.x = x[i]]
           /\ v' = [v EXCEPT ![i + 1] = RAdd(v[i], RMul(an, dt))]
           /\ x' = [x EXCEPT ![i + 1] = RAdd(x[i], RMul(v[i], dt))]
    /\ i' = i + 1
    /\ UNCHANGED <<imported, accDef, scalars, t, pc, err, plotted, lit>>

\* A faulty variant of EulerCromerStep: the position is stepped first, and the
\* acceleration is taken at the new position.
EulerCromerStepReordered ==
    /\ pc = "u_ec"
    /\ i < N
    /\ LET xn == RAdd(x[i], RMul(v[i], dt))
           an == AccUndamped(xn, om)
       IN  /\ a' = an
           /\ call' = [NoCall EXCEPT !.x = xn]
           /\ x' = [x EXCEPT ![i + 1] = xn]
           /\ v' = [v EXCEPT ![i + 1] = RAdd(v[i], RMul(an, dt))]
    /\ i' = i + 1
    /\ UNCHANGED <<imported, accDef, scalars, t, pc, err, plotted, lit>>

\* Lines 94-97, one iteration of the Euler-Cromer loop:
\*   a = acc(x[i], om); v[i+1] = v[i] + a*dt; x[i+1] = x[i] + v[i+1]*dt
EulerCromerStep ==
    /\ pc = "u_ec"
    /\ i < N
    /\ LET an == AccUndamped(x[i], om)
           vn == RAdd(v[i], RMul(an, dt))
       IN  /\ a' = an
           /\ call' = [NoCall EXCEPT !.x = x[i]]
           /\ v' = [v EXCEPT ![i + 1] = vn]
           /\ x' = [x EXCEPT ![i + 1] = RAdd(x[i], RMul(vn, dt))]
    /\ i' = i + 1
    /\ UNCHANGED <<imported, accDef, scalars, t, pc, err, plotted, lit>>

\* Lines 98-99: the Euler-Cromer loop is over; the arrays go to the plot.
EulerCromerPlot ==
    /\ pc = "u_ec"
    /\ i >= N
    /\ plotted' = Append(plotted,
                    [label |-> "Euler-Cromer", t |-> t, x |-> x, v |-> v])
    /\ pc' = IF eu THEN "u_eu" ELSE "u_show"
    /\ i' = IF eu THEN 0 ELSE i
    /\ UNCHANGED <<imported, accDef, scalars, arrays, a, err, lit, call>>

\* A faulty variant of EulerStep: the position is stepped with the new velocity.
EulerStepNew ==
    /\ pc = "u_eu"
    /\ i < N
    /\ LET an == AccUndamped(x[i], om)
           vn == RAdd(v[i], RMul(an, dt))
       IN  /\ a' = an
           /\ call' = [NoCall EXCEPT !.x = x[i]]
           /\ v' = [v EXCEPT ![i + 1] = vn]
           /\ x' = [x EXCEPT ![i + 1] = RAdd(x[i], RMul(vn, dt))]
    /\ i' = i + 1
    /\ UNCHANGED <<imported, accDef, scalars, t, pc, err, plotted, lit>>

\* Lines 103-106, one iteration of the Euler loop:
\*   a = acc(x[i], om); v[i+1] = v[i] + a*dt; x[i+1] = x[i] + v[i]*dt
EulerStep ==
    /\ pc = "u_eu"
    /\ i < N
    /\ LET an == AccUndamped(x[i], om)
       IN  /\ a' = an
           /\ call' = [NoCall EXCEPT !.x = x[i]]
           /\ v' = [v EXCEPT ![i + 1] = RAdd(v[i], RMul(an, dt))]
           /\ x' = [x EXCEPT ![i + 1] = RAdd(x[i], RMul(v[i], dt))]
    /\ i' = i + 1
    /\ UNCHANGED <<imported, accDef, scalars, t, pc, err, plotted, lit>>

\* Lines 107-108: the Euler loop is over; the arrays go to the plot.
EulerPlot ==
    /\ pc = "u_eu"
    /\ i >= N
    /\ plotted' = Append(plotted,
                    [label |-> "Euler", t |-> t, x |-> x, v |-> v])
    /\ pc' = "u_show"
    /\ UNCHANGED <<imported, accDef, scalars, arrays, a, i, err, lit, call>>

\* Lines 119-120: plt.legend(); plt.show().  The cell is over.
UndampedShow ==
    /\ pc = "u_show"
    /\ pc' = "idle"
    /\ UNCHANGED <<imported, accDef, scalars, arrays, a, i, err, plotted, lit, call>>

\* ------------------------------------------------------ the damped cell
\* A faulty variant of RunDamped: sample 0 is set from the x0 the kernel holds, and
\* the cell's own x0 is assigned after it.
RunDampedStale(p) ==
    LET s == ArraySetup(p.N) IN
    /\ pc = "idle"
    /\ lit' = p
    /\ err' = s.err
    /\ plotted' = <<>>
    /\ accDef' = "damped"
    /\ N' = p.N /\ v0' = p.v0 /\ ze' = p.ze /\ om' = p.om /\ tmax' = p.tmax
    /\ x0' = IF s.far >= 2 THEN p.x0 ELSE x0
    /\ UNCHANGED imported
    /\ SetupArrays(s.far, p.N, p.tmax, x0, p.v0)
    /\ pc' = IF s.far < 4 THEN "idle" ELSE "d_loop"
    /\ i' = IF s.far = 4 THEN 0 ELSE i
    /\ UNCHANGED <<om_d, a0, ec, eu, a, call>>

\* Lines 142-162: def acc, the parameters, dt, x0, the arrays, sample 0.
RunDamped(p) ==
    LET s == ArraySetup(p.N) IN
    /\ pc = "idle"
    /\ lit' = p
    /\ err' = s.err
    /\ plotted' = <<>>
    /\ accDef' = "damped"
    /\ N' = p.N /\ v0' = p.v0 /\ ze' = p.ze /\ om' = p.om /\ tmax' = p.tmax
    /\ x0' = IF s.far >= 2 THEN p.x0 ELSE x0
    /\ UNCHANGED imported
    /\ SetupArrays(s.far, p.N, p.tmax, p.x0, p.v0)
    /\ pc' = IF s.far < 4 THEN "idle" ELSE "d_loop"
    /\ i' = IF s.far = 4 THEN 0 ELSE i
    /\ UNCHANGED <<om_d, a0, ec, eu, a, call>>

\* A faulty variant of DampedStep: the new sample is written at i, not at i+1.
DampedStepShifted ==
    /\ pc = "d_loop"
    /\ i < N
    /\ LET de == RMul(ze, om)
           an == AccDamped(x[i], v[i], om, de)
           vn == RAdd(v[i], RMul(an, dt))
       IN  /\ a' = an
           /\ call' = [NoCall EXCEPT !.x = x[i], !.v = v[i], !.de = de]
           /\ v' = [v EXCEPT ![i] = vn]
           /\ x' = [x EXCEPT ![i] = RAdd(x[i], RMul(vn, dt))]
    /\ i' = i + 1
    /\ UNCHANGED <<imported, accDef, scalars, t, pc, err, plotted, lit>>

\* Lines 165-168, one iteration:
\*   a = acc(x[i], v[i], om, ze*om); v[i+1] = v[i] + a*dt;
\*   x[i+1] = x[i] + v[i+1]*dt
DampedStep ==
    /\ pc = "d_loop"
    /\ i < N
    /\ LET de == RMul(ze, om)
           an == AccDamped(x[i], v[i], om, de)
           vn == RAdd(v[i], RMul(an, dt))
       IN  /\ a' = an
           /\ call' = [NoCall EXCEPT !.x = x[i], !.v = v[i], !.de = de]
           /\ v' = [v EXCEPT ![i + 1] = vn]
           /\ x' = [x EXCEPT ![i + 1] = RAdd(x[i], RMul(vn, dt))]
    /\ i' = i + 1
    /\ UNCHANGED <<imported, accDef, scalars, t, pc, err, plotted, lit>>

\* Lines 171-176: the loop is over; the arrays are plotted and shown.
DampedPlot ==
    /\ pc = "d_loop"
    /\ i >= N
    /\ plotted' = Append(plotted,
                    [label |-> "Euler-Cromer", t |-> t, x |-> x, v |-> v])
    /\ pc' = "idle"
    /\ UNCHANGED <<imported, accDef, scalars, arrays, a, i, err, lit, call>>

\* ------------------------------------------------------ the driven cell
\* Lines 202-223: def acc, the parameters, tmax, dt, x0, a0, the arrays,
\* sample 0 (the initial velocity is the literal 0).
RunDriven(p) ==
    LET s == DrivenSetup(p.N, p.om_d)
        m == DrivenTmax(p.half, p.om_d)
    IN
    /\ pc = "idle"
    /\ lit' = p
    /\ err' = s.err
    /\ plotted' = <<>>
    /\ accDef' = "driven"
    /\ N' = p.N /\ om' = p.om /\ ze' = p.ze /\ om_d' = p.om_d
    /\ tmax' = IF s.far >= 1 THEN m ELSE tmax
    /\ x0' = IF s.far >= 2 THEN p.x0 ELSE x0
    /\ a0' = IF s.far >= 2 THEN p.a0 ELSE a0
    /\ UNCHANGED imported
    /\ SetupArrays(s.far, p.N, m, p.x0, Zero)
    /\ pc' = IF s.far < 4 THEN "idle" ELSE "r_loop"
    /\ i' = IF s.far = 4 THEN 0 ELSE i
    /\ UNCHANGED <<v0, ec, eu, a, call>>

\* Lines 226-229, one iteration:
\*   a = acc(i*dt, x[i], v[i], om, ze*om, a0, om_d); v[i+1] = v[i] + a*dt;
\*   x[i+1] = x[i] + v[i+1]*dt
DrivenStep ==
    /\ pc = "r_loop"
    /\ i < N
    /\ LET de == RMul(ze, om)
           ti == RMul(FromInt(i), dt)
           an == AccDriven(ti, x[i], v[i], om, de, a0, om_d)
           vn == RAdd(v[i], RMul(an, dt))
       IN  /\ a' = an
           /\ call' = [t |-> ti, x |-> x[i], v |-> v[i], de |-> de]
           /\ v' = [v EXCEPT ![i + 1] = vn]
           /\ x' = [x EXCEPT ![i + 1] = RAdd(x[i], RMul(vn, dt))]
    /\ i' = i + 1
    /\ UNCHANGED <<imported, accDef, scalars, t, pc, err, plotted, lit>>

\* Lines 232-237: the loop is over; the arrays are plotted and shown.
DrivenPlot ==
    /\ pc = "r_loop"
    /\ i >= N
    /\ plotted' = Append(plotted,
                    [label |-> "Euler-Cromer", t |-> t, x |-> x, v |-> v])
    /\ pc' = "idle"
    /\ UNCHANGED <<imported, accDef, scalars, arrays, a, i, err, lit, call>>

\* ------------------------------------------------------------- the notebook
Next ==
    \/ Import
    \/ \E p \in UndampedLits : RunUndamped(p)
    \/ EulerCromerStep
    \/ EulerCromerPlot
    \/ EulerStep
    \/ EulerPlot
    \/ UndampedShow
    \/ \E p \in DampedLits : RunDamped(p)
    \/ DampedStep
    \/ DampedPlot
    \/ \E p \in DrivenLits : RunDriven(p)
    \/ DrivenStep
    \/ DrivenPlot

Spec == Init /\ [][Next]_vars

\* ------------------------------------------------------- the loops, whole
\* What acc returns in a loop of the cell `cell` run with the literals p,
\* called at time tk with the samples xk, vk (lines 95, 166, 227).
LoopAcc(cell, p, tk, xk, vk) ==
    CASE cell = "undamped" -> AccUndamped(xk, p.om)
      [] cell = "damped" -> AccDamped(xk, vk, p.om, RMul(p.ze, p.om))
      [] cell = "driven" ->
            AccDriven(tk, xk, vk, p.om, RMul(p.ze, p.om), p.a0, p.om_d)

\* <<x[k], v[k]>> after k iterations of the loop of `cell` started from
\* the literals p alone: the Euler loop when `euler`, else Euler-Cromer.
RECURSIVE LoopRun(_, _, _, _)
LoopRun(cell, euler, p, k) ==
    IF k = 0 THEN <<p.x0, p.v0>>
    ELSE LET was == LoopRun(cell, euler, p, k - 1)
             h == RDiv(p.tmax, FromInt(p.N))
             an == LoopAcc(cell, p, RMul(FromInt(k - 1), h), was[1], was[2])
             vn == RAdd(was[2], RMul(an, h))
         IN  <<RAdd(was[1], RMul(IF euler THEN was[2] ELSE vn, h)), vn>>

\* ------------------------------------------------------------ vocabulary
\* A simulation cell is past its setup and has not ended.
Running == pc # "idle"
\* The last simulation cell run ended without an exception.
Completed == pc = "idle" /\ err = "none" /\ lit.cell # "none"
\* A for-loop is running: samples 0..i of x and v are this loop's.
InLoop == pc \in {"u_ec", "u_eu", "d_loop", "r_loop"}

\* The law of the running cell at sample k of the arrays ts, xs, vs,
\* written out from the differential equations of the notebook's text.
LawAt(ts, xs, vs, k) ==
    LET spring == RNeg(RMul(RMul(om, om), xs[k]))
        friction == RMul(Two, RMul(RMul(ze, om), vs[k]))
        drive == RMul(a0, Sin(RMul(om_d, ts[k])))
    IN  CASE lit.cell = "undamped" -> spring
          [] lit.cell = "damped" -> RSub(spring, friction)
          [] lit.cell = "driven" -> RAdd(RSub(spring, friction), drive)

\* Step k -> k+1 of the arrays follows the scheme: Euler when `euler`,
\* Euler-Cromer otherwise.
StepFollows(ts, xs, vs, k, euler) ==
    /\ vs[k + 1] = RAdd(vs[k], RMul(LawAt(ts, xs, vs, k), dt))
    /\ xs[k + 1] = RAdd(xs[k], RMul(IF euler THEN vs[k] ELSE vs[k + 1], dt))

\* ------------------------------------------------------------------ C1
\* C1: every step taken so far by the running loop, and every step of every
\* plotted trajectory, has v[k+1] = v[k] + a_k*dt with a_k the law at
\* (t[k], x[k], v[k]), and x[k+1] = x[k] + v[k]*dt under Euler,
\* x[k+1] = x[k] + v[k+1]*dt under Euler-Cromer; the a just computed is the
\* law at the sample before, and acc was called with that sample.
StepRecurrence ==
    /\ InLoop =>
         /\ \A k \in 0..(i - 1) : StepFollows(t, x, v, k, pc = "u_eu")
         /\ i >= 1 =>
              /\ a = LawAt(t, x, v, i - 1)
              /\ call.x = x[i - 1]
              /\ lit.cell # "undamped" => call.v = v[i - 1]
              /\ lit.cell = "driven" => call.t = t[i - 1]
    /\ \A j \in 1..Len(plotted) :
         \A k \in 0..(N - 1) :
            StepFollows(plotted[j].t, plotted[j].x, plotted[j].v, k,
                        plotted[j].label = "Euler")

\* Both schemes have run MaxN steps from one start and ended apart.
StepRecurrenceWitness ==
    /\ pc = "u_show" /\ Len(plotted) = 2 /\ N = MaxN
    /\ plotted[1].x[N] # plotted[2].x[N]

\* ------------------------------------------------------------------ C2
\* C2: a run with N < 1 or tmax <= 0 is rejected before any step: the cell
\* ends with an exception and never reaches its stepping loop.
InvalidRunRejected ==
    (lit.cell # "none" /\ (lit.N < 1 \/ ~RLess(Zero, lit.tmax)))
        => (pc = "idle" /\ err # "none")

\* ------------------------------------------------------------------ C3
\* C3: from the end of a cell's setup on, through its loops and after the
\* cell has ended, sample 0 is the start the cell was run with: x[0] is
\* the literal x0, v[0] the literal v0 (in the driven cell, the literal 0
\* of "v[0] = 0"); so is sample 0 of every plotted trajectory.
InitialConditionFidelity ==
    (Running \/ Completed) =>
        /\ x[0] = lit.x0 /\ v[0] = lit.v0
        /\ \A j \in 1..Len(plotted) :
              plotted[j].x[0] = lit.x0 /\ plotted[j].v[0] = lit.v0

\* A loop has written all of 1..N and the start is not the zero the arrays
\* are filled with.
InitialConditionWitness ==
    /\ Completed /\ N = MaxN /\ Len(plotted) >= 1
    /\ x[0] # Zero /\ v[0] # Zero /\ x[N] # x[0] /\ v[N] # v[0]

\* ------------------------------------------------------------------ C4
\* C4: a run past its setup has N+1 samples 0..N of t, x and v, with
\* t[0] = 0, t[N] = tmax and t[j] = j*(tmax/N); t is strictly increasing
\* when tmax > 0; and the time the driven cell last called acc with is the
\* t of the sample it stepped from.
TimeGrid ==
    (Running \/ Completed) =>
        /\ DOMAIN t = 0..lit.N /\ DOMAIN x = 0..lit.N /\ DOMAIN v = 0..lit.N
        /\ t[0] = Zero /\ t[lit.N] = lit.tmax
        /\ \A j \in 0..lit.N :
              t[j] = RMul(FromInt(j), RDiv(lit.tmax, FromInt(lit.N)))
        /\ RLess(Zero, lit.tmax) =>
              \A j \in 0..(lit.N - 1) : RLess(t[j], t[j + 1])
        /\ (lit.cell = "driven" /\ i >= 1) => call.t = t[i - 1]

\* The driven loop has stepped from a sample after the first.
TimeGridWitness ==
    /\ pc = "r_loop" /\ i = N /\ N = MaxN /\ RLess(Zero, tmax)
    /\ call.t # Zero

\* ------------------------------------------------------------------ C5
\* C5: when both schemes have run from one start, their v[1] agree, Euler's
\* x[1] is x0 + v0*dt, Euler-Cromer's is x0 + v[1]*dt, and the two x[1]
\* differ exactly when a_0 # 0.
SchemesAtStepOne ==
    (pc = "u_show" /\ Len(plotted) = 2) =>
        LET cr == plotted[1]
            eu1 == plotted[2]
            a_0 == RNeg(RMul(RMul(om, om), x0))
        IN  /\ cr.v[1] = eu1.v[1]
            /\ eu1.x[1] = RAdd(x0, RMul(v0, dt))
            /\ cr.x[1] = RAdd(x0, RMul(cr.v[1], dt))
            /\ (a_0 # Zero) <=> (cr.x[1] # eu1.x[1])

\* ------------------------------------------------------------------ C6
\* The energy 1/2 v[k]^2 + 1/2 om^2 x[k]^2 of sample k.
Energy(xs, vs, k) ==
    RDiv(RAdd(RMul(vs[k], vs[k]), RMul(RMul(om, om), RMul(xs[k], xs[k]))), Two)

\* Step k -> k+1 multiplies the energy by 1 + om^2 dt^2, and makes it
\* strictly larger when om # 0, dt > 0 and the start is not at rest.
EnergyGrowsAt(xs, vs, k) ==
    /\ Energy(xs, vs, k + 1)
          = RMul(RAdd(One, RMul(RMul(om, om), RMul(dt, dt))), Energy(xs, vs, k))
    /\ (om # Zero /\ RLess(Zero, dt) /\ <<x0, v0>> # <<Zero, Zero>>) =>
          RLess(Energy(xs, vs, k), Energy(xs, vs, k + 1))

\* C6: with om # 0, dt > 0 and a start other than rest, the energy grows
\* strictly (by the factor 1 + om^2 dt^2) at every step the Euler loop of
\* the undamped cell has taken, and at every step of the plotted Euler
\* trajectory.
EulerEnergyGrows ==
    /\ pc = "u_eu" => \A k \in 0..(i - 1) : EnergyGrowsAt(x, v, k)
    /\ \A j \in 1..Len(plotted) :
          plotted[j].label = "Euler" =>
             \A k \in 0..(N - 1) : EnergyGrowsAt(plotted[j].x, plotted[j].v, k)

\* The Euler loop has run the MaxN steps of the example om = 5, x0 = 0.5,
\* v0 = 5, dt = 1/20.
EulerEnergyWitness ==
    /\ pc = "u_eu" /\ i = N /\ lit = ExampleLit

\* ------------------------------------------------------------------ C7
\* C7: once the Euler-Cromer trajectory has been produced, the arrays x
\* and v keep its samples: the Euler run does not change them.
CromerTrajectoryKept ==
    (pc \in {"u_eu", "u_show"} /\ Len(plotted) >= 1) =>
        (x = plotted[1].x /\ v = plotted[1].v)

\* ------------------------------------------------------------------ C8
\* Q_k = v[k]^2 + om^2 x[k]^2 - dt om^2 x[k] v[k]
CromerQ(xs, vs, k) ==
    RSub(RAdd(RMul(vs[k], vs[k]), RMul(RMul(om, om), RMul(xs[k], xs[k]))),
         RMul(dt, RMul(RMul(om, om), RMul(xs[k], vs[k]))))

\* C8: Q has one value at every sample the Euler-Cromer loop of the
\* undamped cell has written, and at every sample of the plotted
\* Euler-Cromer trajectory.
CromerInvariant ==
    /\ pc = "u_ec" =>
          \A k \in 0..(i - 1) : CromerQ(x, v, k + 1) = CromerQ(x, v, k)
    /\ (lit.cell = "undamped" /\ Len(plotted) >= 1 /\ lit.ec) =>
          \A k \in 0..(N - 1) :
             CromerQ(plotted[1].x, plotted[1].v, k + 1)
                = CromerQ(plotted[1].x, plotted[1].v, k)

\* The Euler-Cromer loop has run MaxN steps and moved both x and v.
CromerInvariantWitness ==
    /\ pc = "u_ec" /\ i = N /\ N = MaxN /\ dt # Zero
    /\ x[N] # x[0] /\ v[N] # v[0] /\ x[N] # x[N - 1]

\* ------------------------------------------------------------------ C9
\* The samples 0..n of x and v are those of the Euler-Cromer loop of
\* `cell` run with the literals of the last run.
SameAs(cell, n) ==
    \A k \in 0..n : <<x[k], v[k]>> = LoopRun(cell, FALSE, lit, k)

\* C9: the driven loop with a0 = 0 writes the samples the damped loop
\* writes for the same literals, the damped loop with ze = 0 those of the
\* undamped Euler-Cromer loop, and both pass de = ze*om to acc.
LawsCompose ==
    (InLoop \/ Completed) =>
        LET n == IF InLoop THEN i ELSE N IN
        /\ (lit.cell = "driven" /\ lit.a0 = Zero) => SameAs("damped", n)
        /\ (lit.cell = "damped" /\ lit.ze = Zero) => SameAs("undamped", n)
        /\ (lit.cell \in {"damped", "driven"} /\ i >= 1) =>
              call.de = RMul(lit.ze, lit.om)

\* The driven loop has run MaxN damped steps with no driving.
LawsComposeWitness ==
    /\ pc = "r_loop" /\ i = N /\ N = MaxN
    /\ a0 = Zero /\ ze # Zero /\ x[N] # x[0]

\* ----------------------------------------------------------------- C10
\* C10: in a cell past its setup, and after it has ended, every global the
\* cell reads holds the literal of this run, and the samples written and
\* the trajectories plotted are those the cell's loops compute from these
\* literals alone, whatever the cells run before have left in the kernel.
CellsIndependent ==
    (Running \/ Completed) =>
        /\ accDef = lit.cell /\ N = lit.N /\ om = lit.om /\ x0 = lit.x0
        /\ tmax = lit.tmax /\ dt = RDiv(lit.tmax, FromInt(lit.N))
        /\ t = Linspace(Zero, lit.tmax, lit.N + 1)
        /\ lit.cell = "undamped" =>
              v0 = lit.v0 /\ ec = lit.ec /\ eu = lit.eu
        /\ lit.cell = "damped" => v0 = lit.v0 /\ ze = lit.ze
        /\ lit.cell = "driven" =>
              ze = lit.ze /\ om_d = lit.om_d /\ a0 = lit.a0
        /\ InLoop =>
              \A k \in 0..i :
                 <<x[k], v[k]>> = LoopRun(lit.cell, pc = "u_eu", lit, k)
        /\ \A j \in 1..Len(plotted) :
              \A k \in 0..N :
                 <<plotted[j].x[k], plotted[j].v[k]>>
                    = LoopRun(lit.cell, plotted[j].label = "Euler", lit, k)

\* The damped cell has ended in a kernel where the undamped and the driven
\* cell have left other values of the globals it does not assign, and the
\* last run ended without an exception.
CellsIndependentWitness ==
    /\ Completed /\ lit.cell = "damped" /\ N = MaxN
    /\ a0 # Zero /\ om_d # Zero /\ ec /\ eu /\ x[N] # x[0]

====
